---- MODULE Spec2Model ----
(***************************************************************************)
(* The segmented Raft changelog of src/Coordination/Changelog.cpp as a     *)
(* state machine: the directory of segment files, the in-memory maps of    *)
(* class Changelog and its current ChangelogWriter.                        *)
(*                                                                         *)
(* A file is the sequence of the items it holds: framed records, or a run  *)
(* of undecodable bytes (the prefix of a cut record, or the zeros a       *)
(* truncate past the end of file adds).  Offsets are byte offsets.         *)
(* A size_t counter is kept as its representative in (-2^63, 2^63): -1 is  *)
(* 2^64 - 1, so that ++, -- and == behave as they do modulo 2^64.          *)
(***************************************************************************)
EXTENDS Integers, Sequences, FiniteSets, TLC

\* ------------------------------------------------------------------ bounds
rotate_interval == 2        \* constructor argument rotate_interval_
MaxIndex == 5               \* the largest log index a caller passes
MaxFaults == 1              \* disk faults (cut or flipped record) in one run
MaxBatch == 2               \* entries in one serialized batch
MaxCalls == 6               \* calls and faults in one run of Spec

\* Width of ChangelogRecordHeader as written field by field: 1+8+8+4+8+16.
HeaderSize == 45

DEFAULT_PREFIX == "changelog"

\* The log entries callers pass: a term, a value type and a blob.
LogEntries ==
    { [term |-> 1, val_type |-> 1, blob |-> <<>>],
      [term |-> 2, val_type |-> 1, blob |-> <<7>>] }

\* ------------------------------------------------------------------ maps
Max(S) == CHOOSE x \in S : \A y \in S : y <= x
Min(S) == CHOOSE x \in S : \A y \in S : x <= y

MapPut(f, k, v) == [x \in (DOMAIN f) \cup {k} |-> IF x = k THEN v ELSE f[x]]
MapErase(f, K) == [x \in (DOMAIN f) \ K |-> f[x]]
EmptyMap == [x \in {} |-> 0]

\* ------------------------------------------------------------------ files
\* CityHash128 over the blob bytes: an injective tag of the bytes hashed.
CityHash128(blob) == <<"city128", blob>>

Garbage(n) ==
    [kind |-> "garbage", index |-> 0, term |-> 0, val_type |-> 0,
     blob_size |-> 0, blob_checksum |-> <<>>, blob |-> <<>>, len |-> n]

ItemSize(r) == IF r.kind = "record" THEN HeaderSize + Len(r.blob) ELSE r.len

RECURSIVE FileSize(_)
FileSize(f) == IF f = <<>> THEN 0 ELSE ItemSize(f[1]) + FileSize(Tail(f))

\* ftruncate(fd, len): items wholly below len stay, an item cut by len leaves
\* its prefix as undecodable bytes, a len past the end adds zero bytes.
RECURSIVE TruncateFile(_, _)
TruncateFile(f, len) ==
    IF len <= 0 THEN <<>>
    ELSE IF f = <<>> THEN <<Garbage(len)>>
    ELSE IF ItemSize(f[1]) <= len
         THEN <<f[1]>> \o TruncateFile(Tail(f), len - ItemSize(f[1]))
         ELSE <<Garbage(len)>>

formatChangelogPath(name) == <<name.prefix, name.from_log_idx, name.to_log_idx>>

getChangelogFileDescription(path) ==
    [prefix |-> path[1], from_log_idx |-> path[2], to_log_idx |-> path[3],
     path |-> path]

\* makeClone that leaves the buffer behind (checks C15).
makeClone_NoBuffer(entry) ==
    [term |-> entry.term, val_type |-> entry.val_type, blob |-> <<>>]

makeClone(entry) ==
    [term |-> entry.term, val_type |-> entry.val_type, blob |-> entry.blob]

buildRecord(index, log_entry) ==
    [kind |-> "record", index |-> index, term |-> log_entry.term,
     val_type |-> log_entry.val_type, blob_size |-> Len(log_entry.blob),
     blob_checksum |-> CityHash128(log_entry.blob), blob |-> log_entry.blob,
     len |-> 0]

\* ------------------------------------------------------------------ writer
\* current_writer is <<>> (null) or <<w>>.  The writer keeps its descriptor
\* when its path is removed from the directory: linked is then FALSE and
\* orphan holds the bytes of the unlinked file.
Writer(s) == s.current_writer[1]

WriterFile(s) ==
    IF Writer(s).linked THEN s.disk[Writer(s).filepath] ELSE Writer(s).orphan

SetWriterFile(s, f) ==
    IF Writer(s).linked
    THEN [s EXCEPT !.disk = MapPut(s.disk, Writer(s).filepath, f)]
    ELSE [s EXCEPT !.current_writer = <<[Writer(s) EXCEPT !.orphan = f]>>]

\* ChangelogWriter(filepath, mode, start_index): Rewrite creates or empties
\* the file, Append creates it when missing.
ChangelogWriter(s, filepath, mode, start_index_) ==
    [s EXCEPT
       !.disk = IF mode = "Rewrite" \/ filepath \notin DOMAIN s.disk
                THEN MapPut(s.disk, filepath, <<>>) ELSE s.disk,
       !.current_writer = <<[filepath |-> filepath, entries_written |-> 0,
                             start_index |-> start_index_, linked |-> TRUE,
                             orphan |-> <<>>]>>]

\* The write position the buffer reports: the byte offset where the next
\* record begins, that is the end of the file.
BufCount(f) == FileSize(f)

\* appendRecord: the record goes to the end of the file; the offset where it
\* began is returned in .result.
appendRecord(s, record) ==
    LET f == WriterFile(s)
        s1 == SetWriterFile(s, Append(f, record))
    IN [st |-> [s1 EXCEPT !.current_writer =
                   <<[Writer(s1) EXCEPT !.entries_written = @ + 1]>>],
        result |-> BufCount(f)]

\* truncateToLength that leaves the file as it is (checks C8).
truncateToLength_Skipped(s, new_length) == s

truncateToLength(s, new_length) ==
    SetWriterFile(s, TruncateFile(WriterFile(s), new_length))

setEntriesWritten(s, n) ==
    [s EXCEPT !.current_writer = <<[Writer(s) EXCEPT !.entries_written = n]>>]

\* std::filesystem::remove(path); an open writer on that path keeps its file.
RemoveFile(s, path) ==
    IF path \notin DOMAIN s.disk THEN s
    ELSE LET s1 == IF s.current_writer # <<>> /\ Writer(s).linked
                      /\ Writer(s).filepath = path
                   THEN [s EXCEPT !.current_writer =
                           <<[Writer(s) EXCEPT !.linked = FALSE,
                                               !.orphan = s.disk[path]]>>]
                   ELSE s
         IN [s1 EXCEPT !.disk = MapErase(s1.disk, {path})]

RECURSIVE RemoveFiles(_, _)
RemoveFiles(s, paths) ==
    IF paths = {} THEN s
    ELSE LET p == CHOOSE x \in paths : TRUE
         IN RemoveFiles(RemoveFile(s, p), paths \ {p})

\* Erase the segments with the keys in K from disk and from existing_changelogs.
RemoveChangelogs(s, K) ==
    LET s1 == RemoveFiles(s, {s.existing_changelogs[k].path : k \in K})
    IN [s1 EXCEPT !.existing_changelogs = MapErase(s.existing_changelogs, K)]

\* ------------------------------------------------------------------ reader
ReadError(acc) == [acc EXCEPT !.error = TRUE]

\* The loop of ChangelogReader::readChangelog over the items left in the
\* file; count is read_buf.count() at the head of the loop.
RECURSIVE ReadLoop(_, _, _, _, _)
ReadLoop(f, count, previous_index, start_log_idx, acc) ==
    IF f = <<>> THEN acc
    ELSE
      LET r == f[1]
          acc1 == [acc EXCEPT !.last_position = count]
      IN IF r.kind # "record" THEN ReadError(acc1)
         ELSE IF previous_index # 0 /\ previous_index + 1 # r.index
              THEN ReadError(acc1)
         ELSE IF CityHash128(r.blob) # r.blob_checksum THEN ReadError(acc1)
         ELSE IF r.index \in DOMAIN acc1.logs THEN ReadError(acc1)
         ELSE
           LET acc2 == [acc1 EXCEPT !.entries_read = @ + 1]
               acc3 == IF r.index < start_log_idx THEN acc2
                       ELSE [acc2 EXCEPT
                               !.logs = MapPut(@, r.index,
                                   [term |-> r.term, val_type |-> r.val_type,
                                    blob |-> r.blob]),
                               !.index_to_offset = MapPut(@, r.index, count)]
           IN ReadLoop(Tail(f), count + ItemSize(r), r.index, start_log_idx, acc3)

readChangelog(f, logs_, start_log_idx, index_to_offset_) ==
    ReadLoop(f, 0, 0, start_log_idx,
             [logs |-> logs_, index_to_offset |-> index_to_offset_,
              entries_read |-> 0, last_position |-> 0, error |-> FALSE])

\* ------------------------------------------------------------------ changelog
\* Changelog::Changelog: the directory listing keyed by from_log_idx.
ScanDirectory(disk_) ==
    LET froms == {p[2] : p \in DOMAIN disk_}
    IN [k \in froms |->
          getChangelogFileDescription(CHOOSE p \in DOMAIN disk_ : p[2] = k)]

rotate(s, new_start_log_idx) ==
    LET new_description ==
          [prefix |-> DEFAULT_PREFIX, from_log_idx |-> new_start_log_idx,
           to_log_idx |-> new_start_log_idx + rotate_interval - 1]
        path == formatChangelogPath(new_description)
        d == [prefix |-> new_description.prefix,
              from_log_idx |-> new_description.from_log_idx,
              to_log_idx |-> new_description.to_log_idx, path |-> path]
        s1 == [s EXCEPT !.existing_changelogs = MapPut(@, new_start_log_idx, d)]
    IN ChangelogWriter(s1, path, "Rewrite", new_start_log_idx)

\* The for loop of readChangelogAndInitWriter over the keys not yet visited.
RECURSIVE RecoverLoop(_, _, _)
RecoverLoop(keys, from_log_idx, acc) ==
    IF keys = {} THEN acc
    ELSE
      LET start_idx == Min(keys)
          d == acc.s.existing_changelogs[start_idx]
          acc1 == [acc EXCEPT !.entries_in_last =
                      d.to_log_idx - d.from_log_idx + 1]
      IN IF d.to_log_idx >= from_log_idx
         THEN LET r == readChangelog(acc.s.disk[d.path], acc.s.logs,
                                     from_log_idx, acc.s.index_to_start_pos)
                  acc2 == [acc1 EXCEPT
                             !.s.logs = r.logs,
                             !.s.index_to_start_pos = r.index_to_offset,
                             !.result = [entries_read |-> r.entries_read,
                                         last_position |-> r.last_position,
                                         error |-> r.error],
                             !.total_read = @ + r.entries_read]
              IN IF r.entries_read < acc1.entries_in_last
                 THEN [acc2 EXCEPT !.incomplete_log_idx = start_idx]
                 ELSE RecoverLoop(keys \ {start_idx}, from_log_idx, acc2)
         ELSE RecoverLoop(keys \ {start_idx}, from_log_idx, acc1)

\* ReopenShort that forgets setEntriesWritten (checks C7).
ReopenShort_CountNotSet(s, description, result) ==
    LET s2 == ChangelogWriter(s, description.path, "Append",
                              description.from_log_idx)
    IN IF result.error THEN truncateToLength(s2, result.last_position) ELSE s2

\* The branch of readChangelogAndInitWriter that reopens the short last
\* segment for appending (lines 278-282).
ReopenShort(s, description, result) ==
    LET s2 == setEntriesWritten(
                ChangelogWriter(s, description.path, "Append",
                                description.from_log_idx),
                result.entries_read)
    IN IF result.error THEN truncateToLength(s2, result.last_position) ELSE s2

readChangelogAndInitWriter(s, from_log_idx) ==
    LET s0 == [s EXCEPT !.start_index =
                  IF from_log_idx = 0 THEN 1 ELSE from_log_idx]
        acc == RecoverLoop(DOMAIN s0.existing_changelogs, from_log_idx,
                 [s |-> s0, total_read |-> 0, entries_in_last |-> 0,
                  incomplete_log_idx |-> 0,
                  result |-> [entries_read |-> 0, last_position |-> 0,
                              error |-> FALSE]])
        s1 == IF acc.incomplete_log_idx # 0
              THEN RemoveChangelogs(acc.s,
                     {k \in DOMAIN acc.s.existing_changelogs :
                         k > acc.incomplete_log_idx})
              ELSE acc.s
    IN IF DOMAIN s1.existing_changelogs # {}
          /\ acc.result.entries_read < acc.entries_in_last
       THEN ReopenShort(s1,
                 s1.existing_changelogs[Max(DOMAIN s1.existing_changelogs)],
                 acc.result)
       ELSE rotate(s1, s1.start_index + acc.total_read)

\* appendEntry without the check of try_emplace's result (checks C14).
appendEntry_Unchecked(s, index, log_entry) ==
    IF s.current_writer = <<>> THEN [st |-> s, status |-> "throw"]
    ELSE
      LET s1 == IF DOMAIN s.logs = {} THEN [s EXCEPT !.start_index = index]
                ELSE s
          s2 == IF Writer(s1).entries_written = rotate_interval
                THEN rotate(s1, index) ELSE s1
          w == appendRecord(s2, buildRecord(index, log_entry))
      IN [st |-> [w.st EXCEPT
                    !.index_to_start_pos = MapPut(@, index, w.result),
                    !.logs = MapPut(@, index, makeClone(log_entry))],
          status |-> "ok"]

\* appendEntry: .status is "ok" when it returns, "throw" when it raises
\* LOGICAL_ERROR; .st is the state it leaves either way.
appendEntry(s, index, log_entry) ==
    IF s.current_writer = <<>> THEN [st |-> s, status |-> "throw"]
    ELSE
      LET s1 == IF DOMAIN s.logs = {} THEN [s EXCEPT !.start_index = index]
                ELSE s
          s2 == IF Writer(s1).entries_written = rotate_interval
                THEN rotate(s1, index) ELSE s1
          w == appendRecord(s2, buildRecord(index, log_entry))
      IN IF index \in DOMAIN w.st.index_to_start_pos
         THEN [st |-> w.st, status |-> "throw"]
         ELSE [st |-> [w.st EXCEPT
                         !.index_to_start_pos = MapPut(@, index, w.result),
                         !.logs = MapPut(@, index, makeClone(log_entry))],
               status |-> "ok"]

\* The part of writeAt after the writer is chosen (lines 363-386).
writeAtTail(s, index, log_entry, need_rollback) ==
    LET entries_written == Writer(s).entries_written
        s1 == truncateToLength(s, s.index_to_start_pos[index])
        s2 == IF need_rollback
              THEN RemoveChangelogs(s1,
                     {k \in DOMAIN s1.existing_changelogs : k > index})
              ELSE s1
        erased == {k \in DOMAIN s2.logs : k >= index}
        s3 == [s2 EXCEPT !.index_to_start_pos = MapErase(@, erased),
                         !.logs = MapErase(@, erased)]
        s4 == setEntriesWritten(s3, entries_written - Cardinality(erased))
    IN appendEntry(s4, index, log_entry)

\* writeAt.  end_first is what index_changelog->first yields when lower_bound
\* returned end(): an indeterminate value.  .status "crash" stands for the
\* runs where the use of end() or of std::prev(begin()) as a description
\* ends the process.
writeAt(s, index, log_entry, end_first) ==
    IF index \notin DOMAIN s.index_to_start_pos
    THEN [st |-> s, status |-> "throw"]
    ELSE
      LET need_rollback == index < Writer(s).start_index
          keys == DOMAIN s.existing_changelogs
          lower == {k \in keys : k >= index}
          at_end == lower = {}
          first == IF at_end THEN end_first ELSE Min(lower)
          before == IF at_end THEN keys ELSE {k \in keys : k < first}
      IN IF ~need_rollback THEN writeAtTail(s, index, log_entry, FALSE)
         ELSE IF (at_end /\ first = index) \/ (first # index /\ before = {})
              THEN [st |-> s, status |-> "crash"]
         ELSE
           LET description == IF first = index THEN s.existing_changelogs[first]
                              ELSE s.existing_changelogs[Max(before)]
               s1 == setEntriesWritten(
                       ChangelogWriter(s, description.path, "Append", first),
                       description.to_log_idx - description.from_log_idx + 1)
           IN writeAtTail(s1, index, log_entry, TRUE)

\* CompactLoop that removes a segment as soon as its FROM is covered (checks C18).
RECURSIVE CompactLoop_ByFrom(_, _)
CompactLoop_ByFrom(s, up_to_log_idx) ==
    IF DOMAIN s.existing_changelogs = {} THEN s
    ELSE
      LET k == Min(DOMAIN s.existing_changelogs)
          d == s.existing_changelogs[k]
          run == {idx \in d.from_log_idx .. d.to_log_idx :
                    \A j \in d.from_log_idx .. idx :
                        j \in DOMAIN s.index_to_start_pos}
      IN IF d.from_log_idx <= up_to_log_idx
         THEN CompactLoop_ByFrom(
                RemoveChangelogs(
                  [s EXCEPT !.index_to_start_pos = MapErase(@, run)], {k}),
                up_to_log_idx)
         ELSE s

\* The for loop of compact over the segments in key order.
RECURSIVE CompactLoop(_, _)
CompactLoop(s, up_to_log_idx) ==
    IF DOMAIN s.existing_changelogs = {} THEN s
    ELSE
      LET k == Min(DOMAIN s.existing_changelogs)
          d == s.existing_changelogs[k]
          run == {idx \in d.from_log_idx .. d.to_log_idx :
                    \A j \in d.from_log_idx .. idx :
                        j \in DOMAIN s.index_to_start_pos}
      IN IF d.to_log_idx <= up_to_log_idx
         THEN CompactLoop(
                RemoveChangelogs(
                  [s EXCEPT !.index_to_start_pos = MapErase(@, run)], {k}),
                up_to_log_idx)
         ELSE s

\* compact that erases the entries with lower_bound for upper_bound (checks C11).
compact_LowerBound(s, up_to_log_idx) ==
    LET s1 == CompactLoop(s, up_to_log_idx)
    IN [s1 EXCEPT
          !.logs = MapErase(@, {k \in DOMAIN s1.logs : k < up_to_log_idx}),
          !.start_index = up_to_log_idx + 1]

compact(s, up_to_log_idx) ==
    LET s1 == CompactLoop(s, up_to_log_idx)
    IN [s1 EXCEPT
          !.logs = MapErase(@, {k \in DOMAIN s1.logs : k <= up_to_log_idx}),
          !.start_index = up_to_log_idx + 1]

\* nuraft::log_entry::serialize and deserialize: the term, the value type and
\* then the blob bytes.
SerializeEntry(entry) == <<entry.term, entry.val_type>> \o entry.blob

DeserializeEntry(buf) ==
    [term |-> buf[1], val_type |-> buf[2], blob |-> SubSeq(buf, 3, Len(buf))]

\* The framing of serializeEntriesToBuffer: a count, then per entry its size
\* and its serialization.
PackBuffers(bufs) ==
    [num_logs |-> Len(bufs),
     bufs |-> [i \in 1 .. Len(bufs) |-> [size |-> Len(bufs[i]), data |-> bufs[i]]]]

serializeEntriesToBuffer(s, index, cnt) ==
    IF \E i \in index .. index + cnt - 1 : i \notin DOMAIN s.logs
    THEN [status |-> "throw", buffer |-> PackBuffers(<<>>)]
    ELSE [status |-> "ok",
          buffer |-> PackBuffers([i \in 1 .. cnt |->
                                    SerializeEntry(s.logs[index + i - 1])])]

\* The for loop of applyEntriesFromBuffer from its i-th round on; a call that
\* throws or ends the process ends the loop.
RECURSIVE ApplyLoop(_, _, _, _, _)
ApplyLoop(s, index, buffer, i, end_first) ==
    IF i >= buffer.num_logs THEN [st |-> s, status |-> "ok"]
    ELSE
      LET cur_idx == index + i
          log_entry == DeserializeEntry(buffer.bufs[i + 1].data)
          r == IF i = 0 /\ cur_idx \in DOMAIN s.logs
               THEN writeAt(s, cur_idx, log_entry, end_first)
               ELSE appendEntry(s, cur_idx, log_entry)
      IN IF r.status # "ok" THEN r
         ELSE ApplyLoop(r.st, index, buffer, i + 1, end_first)

applyEntriesFromBuffer(s, index, buffer, end_first) ==
    ApplyLoop(s, index, buffer, 0, end_first)

getNextEntryIndex(s) == s.start_index + Cardinality(DOMAIN s.logs)

entryAt(s, idx) == IF idx \in DOMAIN s.logs THEN <<makeClone(s.logs[idx])>> ELSE <<>>

\* getLogEntriesBetween(start, end): end - start elements, <<>> where entryAt
\* returns nullptr.
getLogEntriesBetween(s, start, end) ==
    [i \in 1 .. (end - start) |-> entryAt(s, start + i - 1)]

\* ------------------------------------------------------------------ state
VARIABLES
    disk,                 \* the directory: path -> the items of the file
    existing_changelogs,  \* from_log_idx -> ChangelogFileDescription
    logs,                 \* index -> log entry
    index_to_start_pos,   \* index -> offset of its record in its file
    start_index,
    current_writer,       \* <<>> or <<the ChangelogWriter>>
    phase,                \* "constructed", "ready" or "closed"
    last,                 \* the last call: its name, outcome and arguments
    saved,                \* what the instance held when it was last closed
    torn,                 \* the record the last cut fell in and the byte, or NoTear
    faults,               \* disk faults so far
    calls                 \* steps so far, or Uncounted

vars == <<disk, existing_changelogs, logs, index_to_start_pos, start_index,
          current_writer, phase, last, saved, torn, faults, calls>>

St == [disk |-> disk, existing_changelogs |-> existing_changelogs,
       logs |-> logs, index_to_start_pos |-> index_to_start_pos,
       start_index |-> start_index, current_writer |-> current_writer]

Install(s) ==
    /\ disk' = s.disk
    /\ existing_changelogs' = s.existing_changelogs
    /\ logs' = s.logs
    /\ index_to_start_pos' = s.index_to_start_pos
    /\ start_index' = s.start_index
    /\ current_writer' = s.current_writer

\* A newly constructed Changelog over the directory contents d.
Constructed(d) ==
    [disk |-> d, existing_changelogs |-> ScanDirectory(d), logs |-> EmptyMap,
     index_to_start_pos |-> EmptyMap, start_index |-> 0,
     current_writer |-> <<>>]

NoEntry == [term |-> 0, val_type |-> 0, blob |-> <<>>]
NoTear == [index |-> 0, cut |-> 0]
NoSaved == [logs |-> EmptyMap, start_index |-> 0, next |-> 0, valid |-> FALSE]

Call(op, status, index, entry) ==
    [op |-> op, status |-> status, index |-> index, entry |-> entry]

\* A run counts its steps up to MaxCalls, or does not count them.
Uncounted == 0 - 1

Tick ==
    /\ calls # MaxCalls
    /\ calls' = IF calls = Uncounted THEN Uncounted ELSE calls + 1

Empty ==
    /\ disk = EmptyMap
    /\ existing_changelogs = ScanDirectory(EmptyMap)
    /\ logs = EmptyMap
    /\ index_to_start_pos = EmptyMap
    /\ start_index = 0
    /\ current_writer = <<>>
    /\ phase = "constructed"
    /\ last = Call("construct", "ok", 0, NoEntry)
    /\ saved = NoSaved
    /\ torn = NoTear
    /\ faults = 0

Init == Empty /\ calls = 0

\* The process is gone: nothing of the instance is left but the directory.
Gone(d) ==
    /\ Install([Constructed(d) EXCEPT !.existing_changelogs = EmptyMap])
    /\ phase' = "closed"

\* recover(from_log_idx)
Recover(from_log_idx) ==
    /\ Tick
    /\ phase = "constructed"
    /\ Install(readChangelogAndInitWriter(St, from_log_idx))
    /\ phase' = "ready"
    /\ last' = Call("recover", "ok", from_log_idx, NoEntry)
    /\ UNCHANGED <<saved, torn, faults>>

\* What a call leaves when it returns or throws.
Returned(r, op, index, entry) ==
    /\ last' = Call(op, r.status, index, entry)
    /\ saved' = NoSaved
    /\ torn' = NoTear
    /\ UNCHANGED faults
    /\ IF r.status = "crash"
       THEN Gone(r.st.disk)
       ELSE Install(r.st) /\ phase' = phase

\* append(next_index(), entry)
AppendNext(entry) ==
    /\ Tick
    /\ phase = "ready"
    /\ getNextEntryIndex(St) <= MaxIndex
    /\ Returned(appendEntry(St, getNextEntryIndex(St), entry),
                "append", getNextEntryIndex(St), entry)

\* The values an indeterminate read of end()->first is drawn from.
EndFirstValues(s, index) ==
    IF index \in DOMAIN s.index_to_start_pos
       /\ index < Writer(s).start_index
       /\ \A k \in DOMAIN s.existing_changelogs : k < index
    THEN 0 .. MaxIndex + 1 ELSE {0}

\* write_at(index, entry) on a live index
WriteAtLive(index, entry) ==
    /\ Tick
    /\ phase = "ready"
    /\ index \in DOMAIN logs
    /\ \E end_first \in EndFirstValues(St, index) :
          Returned(writeAt(St, index, entry, end_first), "write_at", index, entry)

\* The batches a leader sends: 1..MaxBatch entries.
Batches == UNION {[1 .. n -> LogEntries] : n \in 1 .. MaxBatch}

\* apply_serialized_batch(index, buffer) at a live index or at next_index();
\* last.entry keeps the entries the buffer was made of.
ApplyBatch(index, batch) ==
    /\ Tick
    /\ phase = "ready"
    /\ index \in DOMAIN logs \cup {getNextEntryIndex(St)}
    /\ index + Len(batch) - 1 <= MaxIndex
    /\ \E end_first \in EndFirstValues(St, index) :
          Returned(applyEntriesFromBuffer(St, index,
                      PackBuffers([i \in 1 .. Len(batch) |-> SerializeEntry(batch[i])]),
                      end_first),
                   "apply_batch", index, batch)

\* compact(up_to_log_idx)
Compact(up_to_log_idx) ==
    /\ Tick
    /\ phase = "ready"
    /\ Returned([st |-> compact(St, up_to_log_idx), status |-> "ok"],
                "compact", up_to_log_idx, NoEntry)

\* ~Changelog
Close ==
    /\ Tick
    /\ phase = "ready"
    /\ saved' = [logs |-> logs, start_index |-> start_index,
                 next |-> getNextEntryIndex(St), valid |-> TRUE]
    /\ Gone(disk)
    /\ last' = Call("close", "ok", 0, NoEntry)
    /\ torn' = NoTear
    /\ UNCHANGED faults

\* Changelog(changelogs_dir, rotate_interval)
Construct ==
    /\ Tick
    /\ phase = "closed"
    /\ Install(Constructed(disk))
    /\ phase' = "constructed"
    /\ last' = Call("construct", "ok", 0, NoEntry)
    /\ UNCHANGED <<saved, torn, faults>>

\* ------------------------------------------------------------------ faults
LastPath(d) == CHOOSE p \in DOMAIN d : \A q \in DOMAIN d : q[2] <= p[2]

\* Where a record may be cut: at its first byte, inside the header, at the
\* last header byte and at its last byte.
CutBytes(r) == {0, 1, HeaderSize - 1, ItemSize(r) - 1}

\* A crash leaves the last segment file cut inside its j-th record.
Tear(j, cut) ==
    /\ Tick
    /\ phase = "closed"
    /\ faults < MaxFaults
    /\ DOMAIN disk # {}
    /\ LET p == LastPath(disk)
           f == disk[p]
       IN /\ j \in 1 .. Len(f)
          /\ f[j].kind = "record"
          /\ cut \in CutBytes(f[j])
          /\ disk' = MapPut(disk, p, TruncateFile(f, FileSize(SubSeq(f, 1, j - 1)) + cut))
          /\ torn' = [index |-> f[j].index, cut |-> cut]
    /\ faults' = faults + 1
    /\ last' = Call("tear", "ok", j, NoEntry)
    /\ UNCHANGED <<existing_changelogs, logs, index_to_start_pos, start_index,
                   current_writer, phase, saved>>

\* The bytes of a stored blob, or of its checksum when the blob is empty,
\* with one bit flipped.
FlipBit(r) ==
    IF r.blob # <<>> THEN [r EXCEPT !.blob = <<(r.blob[1] + 1) % 256>> \o Tail(r.blob)]
    ELSE [r EXCEPT !.blob_checksum = <<"flipped", r.blob_checksum>>]

\* One bit of the j-th record of the file at path p flips on disk.
Corrupt(p, j) ==
    /\ Tick
    /\ phase = "closed"
    /\ faults < MaxFaults
    /\ p \in DOMAIN disk
    /\ j \in 1 .. Len(disk[p])
    /\ disk[p][j].kind = "record"
    /\ CityHash128(disk[p][j].blob) = disk[p][j].blob_checksum
    /\ disk' = MapPut(disk, p, [disk[p] EXCEPT ![j] = FlipBit(@)])
    /\ faults' = faults + 1
    /\ last' = Call("corrupt", "ok", j, NoEntry)
    /\ UNCHANGED <<existing_changelogs, logs, index_to_start_pos, start_index,
                   current_writer, phase, saved, torn>>

Paths == {<<DEFAULT_PREFIX, f, f + rotate_interval - 1>> : f \in 0 .. MaxIndex + 1}

Next ==
    \/ \E from_log_idx \in 0 .. MaxIndex : Recover(from_log_idx)
    \/ \E entry \in LogEntries : AppendNext(entry)
    \/ \E index \in 1 .. MaxIndex, entry \in LogEntries : WriteAtLive(index, entry)
    \/ \E index \in 1 .. MaxIndex, batch \in Batches : ApplyBatch(index, batch)
    \/ \E up_to \in 0 .. MaxIndex : Compact(up_to)
    \/ Close
    \/ Construct
    \/ \E j \in 1 .. rotate_interval + MaxIndex, cut \in 0 .. HeaderSize + 1 : Tear(j, cut)
    \/ \E p \in Paths, j \in 1 .. rotate_interval + MaxIndex : Corrupt(p, j)

\* Every sequence of at most MaxCalls calls and faults.
Spec == Init /\ [][Next]_vars

\* ------------------------------------------------------------------ claims
Returns(op) == phase = "ready" /\ last.op = op /\ last.status = "ok"
AfterCall == phase = "ready" /\ last.status = "ok"

RecordCount(f) == Cardinality({j \in 1 .. Len(f) : f[j].kind = "record"})

\* The item of file f that starts at byte offset off is the record of index i.
RecordStartsAt(f, off, i) ==
    \E j \in 1 .. Len(f) :
        /\ FileSize(SubSeq(f, 1, j - 1)) = off
        /\ f[j].kind = "record"
        /\ f[j].index = i

SegmentsOf(i) ==
    {k \in DOMAIN existing_changelogs :
        existing_changelogs[k].from_log_idx <= i
        /\ i <= existing_changelogs[k].to_log_idx}

\* C1: when write_at(m, e') on a live index m returns, the live indices are
\* exactly start_index..m, entries[m] = e', the entries below m are as they
\* were and next_index() = m + 1.
C1_WriteAtResult ==
    [][(phase = "ready" /\ last'.op = "write_at" /\ last'.status = "ok") =>
         LET m == last'.index
         IN /\ DOMAIN logs' = start_index' .. m
            /\ logs'[m] = last'.entry
            /\ \A i \in DOMAIN logs : i < m => (i \in DOMAIN logs' /\ logs'[i] = logs[i])
            /\ start_index' + Cardinality(DOMAIN logs') = m + 1]_vars

\* C2 (I3): after every call that returns, each live index lies in exactly one
\* segment of existing_changelogs, whose file exists and holds the record of
\* that index at the recorded offset.
C2_LiveIndexInOneSegment ==
    AfterCall =>
      \A i \in DOMAIN logs :
        /\ Cardinality(SegmentsOf(i)) = 1
        /\ \A k \in SegmentsOf(i) :
             /\ existing_changelogs[k].path \in DOMAIN disk
             /\ i \in DOMAIN index_to_start_pos
             /\ RecordStartsAt(disk[existing_changelogs[k].path],
                               index_to_start_pos[i], i)

\* C3 (I6): after every call that returns, a non-tail segment file holds
\* exactly TO - FROM + 1 records and the tail holds at most rotate_interval.
C3_RecordsPerSegment ==
    AfterCall =>
      \A k \in DOMAIN existing_changelogs :
        LET d == existing_changelogs[k]
        IN /\ d.path \in DOMAIN disk
           /\ IF k = Max(DOMAIN existing_changelogs)
              THEN RecordCount(disk[d.path]) <= rotate_interval
              ELSE RecordCount(disk[d.path]) = d.to_log_idx - d.from_log_idx + 1

\* C4 (I1): after every call that returns, logs and index_to_start_pos have
\* the same keys.
C4_SameKeys == AfterCall => DOMAIN logs = DOMAIN index_to_start_pos

\* C5 (I2): after every call that returns, the keys of logs are the gap-free
\* range that starts at start_index.
C5_Contiguous ==
    AfterCall =>
      DOMAIN logs = start_index .. (start_index + Cardinality(DOMAIN logs) - 1)

\* C6 (I5): after every call that returns, the writer writes the file of the
\* segment with the greatest FROM and its start_index is that FROM.
C6_WriterOnTail ==
    AfterCall =>
      /\ current_writer # <<>>
      /\ DOMAIN existing_changelogs # {}
      /\ LET k == Max(DOMAIN existing_changelogs)
         IN /\ Writer(St).linked
            /\ Writer(St).filepath = existing_changelogs[k].path
            /\ Writer(St).start_index = k

\* The records of file f have consecutive indices.
Consecutive(f) ==
    \A j \in 1 .. Len(f) :
        /\ f[j].kind = "record"
        /\ j > 1 => f[j].index = f[j - 1].index + 1

\* The items of file f before the record of index m.
Before(f, m) ==
    SubSeq(f, 1, Min({j \in 1 .. Len(f) : f[j].kind = "record" /\ f[j].index = m} \cup {Len(f) + 1}) - 1)

\* C10: write_at(m, e') with m below the FROM of the writer's segment removes
\* from disk and from existing_changelogs every segment after the one that
\* contains m, and leaves that segment's file holding the records it held
\* below m (consecutive indices from its first one on) and then the record
\* built from e'.
C10_CrossSegmentOverwrite ==
    [][(phase = "ready" /\ last'.op = "write_at" /\ last'.status = "ok"
        /\ last'.index < Writer(St).filepath[2]) =>
         LET m == last'.index
         IN \A c \in SegmentsOf(m) :
              LET d == existing_changelogs[c]
              IN /\ \A k \in DOMAIN existing_changelogs :
                      k > c => /\ k \notin DOMAIN existing_changelogs'
                               /\ existing_changelogs[k].path \notin DOMAIN disk'
                 /\ c \in DOMAIN existing_changelogs'
                 /\ d.path \in DOMAIN disk'
                 /\ disk'[d.path] =
                      Append(Before(disk[d.path], m), buildRecord(m, last'.entry))
                 /\ Consecutive(disk'[d.path])]_vars

\* The positions of file f whose item recover refuses: undecodable bytes, a
\* blob that does not match its checksum, an index that does not follow.
BadPositions(f) ==
    {j \in 1 .. Len(f) :
        \/ f[j].kind # "record"
        \/ CityHash128(f[j].blob) # f[j].blob_checksum
        \/ j > 1 /\ f[j].index # f[j - 1].index + 1}

GoodPrefix(f) == IF BadPositions(f) = {} THEN Len(f) ELSE Min(BadPositions(f)) - 1

\* recover(from) gets as far as reading segment k: the segments before it in
\* the window hold their TO - FROM + 1 records.
Reads(k, from) ==
    /\ existing_changelogs[k].to_log_idx >= from
    /\ \A q \in DOMAIN existing_changelogs :
         (q < k /\ existing_changelogs[q].to_log_idx >= from) =>
            GoodPrefix(disk[existing_changelogs[q].path]) >=
               existing_changelogs[q].to_log_idx - existing_changelogs[q].from_log_idx + 1

\* C9: when recover meets a bad record in a segment, that record and the ones
\* after it in the file are not loaded, every segment with a greater FROM is
\* deleted from disk and from existing_changelogs, and the writer is on that
\* segment's file, cut at the start of the bad record.
C9_RecoverDiscardsFromBadRecord ==
    [][(phase = "constructed" /\ last'.op = "recover") =>
         \A k \in DOMAIN existing_changelogs :
           LET d == existing_changelogs[k]
               f == disk[d.path]
           IN (Reads(k, last'.index) /\ BadPositions(f) # {}) =>
                /\ \A j \in Min(BadPositions(f)) .. Len(f) :
                       f[j].kind = "record" => f[j].index \notin DOMAIN logs'
                /\ \A q \in DOMAIN existing_changelogs :
                       q > k => /\ q \notin DOMAIN existing_changelogs'
                                /\ existing_changelogs[q].path \notin DOMAIN disk'
                /\ current_writer' # <<>>
                /\ current_writer'[1].filepath = d.path
                /\ d.path \in DOMAIN disk'
                /\ disk'[d.path] = SubSeq(f, 1, GoodPrefix(f))]_vars

\* ------------------------------------------------------------------ other runs
InitFree == Empty /\ calls = Uncounted

\* Appends, and closing and reopening the directory with recover(1).
NextDurable ==
    \/ Recover(1)
    \/ \E entry \in LogEntries : AppendNext(entry)
    \/ Close
    \/ Construct

SpecDurable == InitFree /\ [][NextDurable]_vars

\* The same, with crashes that cut the last segment file.
NextTorn ==
    \/ Recover(1)
    \/ \E entry \in LogEntries : AppendNext(entry)
    \/ Close
    \/ Construct
    \/ \E j \in 1 .. rotate_interval + MaxIndex, cut \in 0 .. HeaderSize + 1 : Tear(j, cut)

SpecTorn == InitFree /\ [][NextTorn]_vars

\* Appends and overwrites on a log recovered from index 1.
NextOverwrite ==
    \/ Recover(1)
    \/ \E entry \in LogEntries : AppendNext(entry)
    \/ \E index \in 1 .. MaxIndex, entry \in LogEntries : WriteAtLive(index, entry)

SpecOverwrite == InitFree /\ [][NextOverwrite]_vars

\* Appends, overwrites, and reopening after disk faults.
\* The entries of one term.
TermEntries(term) == {e \in LogEntries : e.term = term}

NextRecovery ==
    \/ Recover(1)
    \/ \E entry \in TermEntries(1) : AppendNext(entry)
    \/ \E index \in 1 .. MaxIndex, entry \in TermEntries(2) : WriteAtLive(index, entry)
    \/ Close
    \/ Construct
    \/ \E j \in 1 .. rotate_interval + MaxIndex, cut \in 0 .. HeaderSize + 1 : Tear(j, cut)
    \/ \E p \in Paths, j \in 1 .. rotate_interval + MaxIndex : Corrupt(p, j)

SpecRecovery == InitFree /\ [][NextRecovery]_vars

\* ------------------------------------------------------------------ durability
\* The record of the last append is the last one of the writer's file, and
\* that file is the file of the one segment whose range holds the index.
LandedInItsSegment ==
    /\ Cardinality(SegmentsOf(last.index)) = 1
    /\ \A k \in SegmentsOf(last.index) :
         /\ Writer(St).linked
         /\ Writer(St).filepath = existing_changelogs[k].path
         /\ disk[Writer(St).filepath] # <<>>
         /\ disk[Writer(St).filepath][Len(disk[Writer(St).filepath])] =
               buildRecord(last.index, last.entry)

\* C7: after appends of consecutive indices from 1, closing and reopening with
\* recover(1) gives back the same logs, start_index and next_index(), and
\* every append lands in the segment whose range holds its index.
C7_DurabilityRoundTrip ==
    /\ (Returns("recover") /\ saved.valid) =>
          /\ logs = saved.logs
          /\ start_index = saved.start_index
          /\ getNextEntryIndex(St) = saved.next
    /\ Returns("append") => LandedInItsSegment

\* A reopening after appends that ended exactly on a full second segment.
C7_Witness ==
    /\ Returns("recover")
    /\ saved.valid
    /\ DOMAIN saved.logs = 1 .. 2 * rotate_interval
    /\ DOMAIN logs = 1 .. 2 * rotate_interval

\* The state a new changelog over an empty directory has after recover(1)
\* and the appends of entries 1..n of the map m.
RECURSIVE Replay(_, _)
Replay(m, n) ==
    IF n = 0 THEN readChangelogAndInitWriter(Constructed(EmptyMap), 1)
    ELSE appendEntry(Replay(m, n - 1), n, m[n]).st

\* C8: after the last segment file is cut inside record k and the directory is
\* reopened with recover(1), exactly the records below k are live,
\* next_index() = k, the writer's file holds the intact records and no more,
\* entries_written counts them; and after later appends the files and the
\* in-memory state are those of a log to which the cut records were never
\* written.
C8_TornTailRecovery ==
    /\ (Returns("recover") /\ saved.valid /\ torn.index > 0) =>
          /\ DOMAIN logs = {i \in DOMAIN saved.logs : i < torn.index}
          /\ \A i \in DOMAIN logs : logs[i] = saved.logs[i]
          /\ getNextEntryIndex(St) = torn.index
          /\ Writer(St).linked
          /\ torn.index \in Writer(St).filepath[2] .. Writer(St).filepath[3]
          /\ Consecutive(disk[Writer(St).filepath])
          /\ Len(disk[Writer(St).filepath]) = torn.index - Writer(St).filepath[2]
          /\ Writer(St).entries_written = Len(disk[Writer(St).filepath])
    /\ (Returns("append") /\ faults > 0) =>
          /\ DOMAIN logs = 1 .. Cardinality(DOMAIN logs)
          /\ St = Replay(logs, Cardinality(DOMAIN logs))

\* A recovery after a cut inside the header of the first of two records of the
\* last segment, the first segment being full.
C8_Witness ==
    /\ Returns("recover")
    /\ saved.valid
    /\ torn.index = rotate_interval + 1
    /\ torn.cut > 0
    /\ saved.next = rotate_interval + 3
    /\ getNextEntryIndex(St) = rotate_interval + 1

\* ------------------------------------------------------------------ compaction
\* Every sequence of at most MaxCalls calls of recover, append, write_at and
\* compact, with closing and reopening; no disk faults.
NextCompact ==
    \/ \E from_log_idx \in 0 .. MaxIndex : Recover(from_log_idx)
    \/ \E entry \in LogEntries : AppendNext(entry)
    \/ \E index \in 1 .. MaxIndex, entry \in LogEntries : WriteAtLive(index, entry)
    \/ \E up_to \in 0 .. MaxIndex : Compact(up_to)
    \/ Close
    \/ Construct

SpecCompact == Init /\ [][NextCompact]_vars

\* C11: after compact(up_to) returns, entry_at and entries_between show no
\* index <= up_to, start_index = up_to + 1, and no segment with TO <= up_to
\* is left in existing_changelogs or on disk.
C11_CompactObservable ==
    Returns("compact") =>
      LET up_to == last.index
      IN /\ \A i \in 0 .. up_to : entryAt(St, i) = <<>>
         /\ \A start \in 0 .. up_to :
                \A j \in 1 .. (up_to + 1 - start) :
                    getLogEntriesBetween(St, start, MaxIndex + 2)[j] = <<>>
         /\ start_index = up_to + 1
         /\ \A k \in DOMAIN existing_changelogs :
                existing_changelogs[k].to_log_idx > up_to
         /\ \A p \in DOMAIN disk : p[3] > up_to

\* compact(rotate_interval) on a log of rotate_interval + 1 entries: the first
\* segment is gone and the second is kept with its entry.
C11_Witness ==
    /\ Returns("compact")
    /\ last.index = rotate_interval
    /\ DOMAIN logs = {rotate_interval + 1}
    /\ DOMAIN existing_changelogs = {rotate_interval + 1}
    /\ DOMAIN disk = {existing_changelogs[rotate_interval + 1].path}

\* C12: start_index is the smallest live index whenever the log is non-empty,
\* and no compact call makes start_index smaller than it was.
C12_StartIndexMonotone ==
    [][/\ (phase' = "ready" /\ last'.status = "ok" /\ DOMAIN logs' # {}) =>
            start_index' = Min(DOMAIN logs')
       /\ (phase = "ready" /\ last'.op = "compact") =>
            start_index' >= start_index]_vars

\* C18: compact(up_to) keeps every segment with TO > up_to and the contents
\* of its file, every entry above up_to, what entries_between returns above
\* up_to, and the writer with its entries_written.
C18_CompactFrame ==
    [][(phase = "ready" /\ last'.op = "compact" /\ last'.status = "ok") =>
         LET up_to == last'.index
         IN /\ \A k \in DOMAIN existing_changelogs :
                  existing_changelogs[k].to_log_idx > up_to =>
                    /\ k \in DOMAIN existing_changelogs'
                    /\ existing_changelogs'[k] = existing_changelogs[k]
                    /\ existing_changelogs[k].path \in DOMAIN disk =>
                          /\ existing_changelogs[k].path \in DOMAIN disk'
                          /\ disk'[existing_changelogs[k].path] =
                                disk[existing_changelogs[k].path]
            /\ \A i \in DOMAIN logs :
                  i > up_to => (i \in DOMAIN logs' /\ logs'[i] = logs[i])
            /\ getLogEntriesBetween(St', up_to + 1, MaxIndex + 2) =
                  getLogEntriesBetween(St, up_to + 1, MaxIndex + 2)
            /\ current_writer' # <<>>
            /\ current_writer'[1].filepath = Writer(St).filepath
            /\ current_writer'[1].entries_written = Writer(St).entries_written
            /\ current_writer'[1].start_index = Writer(St).start_index]_vars

\* compact(rotate_interval - 1), which falls inside the first segment, on a
\* log of rotate_interval + 1 entries: both segments are kept.
C18_Witness ==
    /\ Returns("compact")
    /\ last.index = rotate_interval - 1
    /\ DOMAIN logs = rotate_interval .. rotate_interval + 1
    /\ DOMAIN existing_changelogs = {1, rotate_interval + 1}

\* ------------------------------------------------------------------ errors
\* append(index, entry) as any caller may issue it: before recover, at
\* next_index(), or at an index that already has an entry or an offset.
AppendAt(index, entry) ==
    /\ Tick
    /\ phase \in {"constructed", "ready"}
    /\ \/ phase = "constructed"
       \/ index = getNextEntryIndex(St)
       \/ index \in DOMAIN logs \cup DOMAIN index_to_start_pos
    /\ Returned(appendEntry(St, index, entry), "append", index, entry)

\* write_at(index, entry) at any index, before or after recover
WriteAt(index, entry) ==
    /\ Tick
    /\ phase \in {"constructed", "ready"}
    /\ \E end_first \in EndFirstValues(St, index) :
          Returned(writeAt(St, index, entry, end_first), "write_at", index, entry)

\* Every sequence of at most MaxCalls calls, the failing ones included.
NextErrors ==
    \/ \E from_log_idx \in 0 .. MaxIndex : Recover(from_log_idx)
    \/ \E index \in 1 .. MaxIndex, entry \in LogEntries : AppendAt(index, entry)
    \/ \E index \in 1 .. MaxIndex, entry \in LogEntries : WriteAt(index, entry)
    \/ \E up_to \in 0 .. MaxIndex : Compact(up_to)
    \/ Close
    \/ Construct

SpecErrors == Init /\ [][NextErrors]_vars

\* C13: write_at(index, e) on an index that is not a key of logs, also one
\* dropped by an earlier compact and also before recover, throws and leaves
\* memory and disk as they were.
C13_WriteAtNotLive ==
    [][(last'.op = "write_at" /\ last'.index \notin DOMAIN logs) =>
          /\ last'.status = "throw"
          /\ St' = St
          /\ phase' = phase]_vars

\* C14: append(index, e) throws when index already has an entry and an
\* offset, leaving that entry as it was, and throws when there is no
\* current writer.
C14_AppendDuplicateFails ==
    [][(last'.op = "append") =>
          /\ (last'.index \in DOMAIN logs \cap DOMAIN index_to_start_pos) =>
                /\ last'.status = "throw"
                /\ logs' = logs
          /\ (current_writer = <<>>) =>
                /\ last'.status = "throw"
                /\ logs' = logs]_vars

\* append on a live index has thrown and the entry is the one of before; or
\* append before recover has thrown.
C14_Witness ==
    /\ last.op = "append"
    /\ last.status = "throw"
    /\ phase = "ready"
    /\ last.index \in DOMAIN logs
    /\ logs[last.index] # last.entry

\* C17: after every public operation, also a failed one, the ranges of the
\* segments in existing_changelogs are pairwise disjoint and ordered by FROM.
C17_SegmentsDisjoint ==
    phase = "ready" =>
      \A k1, k2 \in DOMAIN existing_changelogs :
          k1 < k2 =>
            existing_changelogs[k1].to_log_idx < existing_changelogs[k2].from_log_idx

\* C20: an append that throws because index is already present leaves the
\* directory, the maps, start_index and the writer as they were.
C20_FailedAppendAtomic ==
    [][(last'.op = "append" /\ last'.status = "throw"
        /\ last'.index \in DOMAIN index_to_start_pos) =>
          St' = St]_vars

\* ------------------------------------------------------------------ reads
\* C15: an append(n, e) that follows appends of 1..n-1 on a changelog
\* recovered from an empty directory leaves entries_between(1, n + 1) of
\* length n, with e last and the entries of before in front of it, and
\* next_index() = n + 1.
C15_AppendThenRead ==
    [][(phase = "ready" /\ last'.op = "append" /\ last'.status = "ok") =>
         LET n == last'.index
             read == getLogEntriesBetween(St', 1, n + 1)
         IN /\ Len(read) = n
            /\ read[n] = <<last'.entry>>
            /\ \A k \in 1 .. n - 1 :
                  /\ read[k] # <<>>
                  /\ read[k] = getLogEntriesBetween(St, 1, n)[k]
            /\ getNextEntryIndex(St') = n + 1]_vars

\* The append that opened the second segment has returned and all the
\* entries are read back.
C15_Witness ==
    /\ Returns("append")
    /\ last.index = rotate_interval + 1
    /\ DOMAIN existing_changelogs = {1, rotate_interval + 1}
    /\ \A k \in 1 .. rotate_interval + 1 :
          getLogEntriesBetween(St, 1, rotate_interval + 2)[k] # <<>>

\* What apply_serialized_batch gives on a new changelog over an empty
\* directory, recovered from 1, for the buffer serialize_batch(1, n) makes.
Reconstructed(s, n) ==
    applyEntriesFromBuffer(readChangelogAndInitWriter(Constructed(EmptyMap), 1),
                           1, serializeEntriesToBuffer(s, 1, n).buffer, 0)

\* C16: when apply_serialized_batch(base, buffer) of n entries returns, base
\* being live or next_index(), the live indices are start_index..base+n-1
\* and entries[base + i] is the i-th entry of the batch; and the buffer of
\* serialize_batch(1, n), applied to a new empty changelog, gives entries
\* 1..n as they are.
C16_ApplyBatch ==
    [][(phase = "ready" /\ last'.op = "apply_batch" /\ last'.status = "ok") =>
         LET base == last'.index
             batch == last'.entry
             n == Len(batch)
         IN /\ DOMAIN logs' = start_index' .. base + n - 1
            /\ \A i \in 0 .. n - 1 :
                  /\ base + i \in DOMAIN logs'
                  /\ logs'[base + i] = batch[i + 1]
            /\ \A m \in 1 .. MaxIndex :
                  (1 .. m \subseteq DOMAIN logs') =>
                     /\ Reconstructed(St', m).status = "ok"
                     /\ DOMAIN Reconstructed(St', m).st.logs = 1 .. m
                     /\ \A i \in 1 .. m :
                           Reconstructed(St', m).st.logs[i] = logs'[i]]_vars

\* The record of live index i, as appendEntry built it, is in some file of
\* the directory.
RecordOnDisk(s, i) ==
    \E p \in DOMAIN s.disk :
        \E j \in 1 .. Len(s.disk[p]) :
            s.disk[p][j] = buildRecord(i, s.logs[i])

\* C19: when recover(from_log_idx) returns, every entry it placed in
\* entries still has its intact record in a segment file of the directory:
\* the segment recover rotates to never takes the path of a segment it
\* replayed.
C19_RecoverKeepsWhatItLoads ==
    Returns("recover") => \A i \in DOMAIN logs : RecordOnDisk(St, i)

====
